---------------------------- MODULE Spec2Model ----------------------------
(***************************************************************************)
(* A model of the AI-Meeting-Summarizer front end:                         *)
(*   - AIProcessor.analyzeMeeting and its helpers (utils/aiProcessor.ts),  *)
(*     a pure keyword-matching transform over the transcript string;       *)
(*   - AuthProvider (contexts/AuthContext.tsx): login, signup, logout;     *)
(*   - DashboardPage.handleTranscriptSubmit and the form that calls it.    *)
(* Strings are TLA+ strings handled character by character, so that        *)
(* split, trim, toLowerCase and includes are computed as JavaScript        *)
(* computes them.                                                          *)
(***************************************************************************)
EXTENDS Integers, Sequences, FiniteSets, TLC

VARIABLES
    transcript,     \* analyzeMeeting's first argument
    participants,   \* analyzeMeeting's second argument
    now,            \* the clock Date.now() reads: [day |-> days since epoch, ms |-> ms of the day]
    seed,           \* state of the Math.random generator
    seed0,          \* the seed a stubbed Math.random replays from on every call
    mocked,         \* TRUE: frozen clock and a replaying Math.random stub (test harness)
    uuid,           \* state of the uuid library's own random source
    calls,          \* number of analyzeMeeting calls made so far
    at,             \* the clock value the last call read
    result,         \* the MeetingAnalysis the last call returned
    prev,           \* the MeetingAnalysis the call before it returned
    user,           \* AuthProvider's user state: a User or Null
    stored,         \* localStorage's 'user' entry: a JSON text or Null
    pending,        \* login and signup calls waiting on their one-second timer, oldest first
    stale,          \* how many of the pending calls were started before the latest logout
    ret,            \* the last login or signup call to return and what it returned, or Null
    loading,        \* DashboardPage's loading state
    currentMeeting, \* DashboardPage's currentMeeting state: a Meeting or Null
    analysis,       \* DashboardPage's analysis state: a MeetingAnalysis or Null
    inflight,       \* the arguments of the handleTranscriptSubmit call waiting on its timer, or Null
    submits,        \* number of handleTranscriptSubmit calls made so far
    outcome,        \* how the last handleTranscriptSubmit call ended: "none", "done" or "threw"
    before          \* currentMeeting and analysis as they were when the last call started

avars == <<transcript, participants, now, seed, seed0, mocked, uuid, calls, at, result, prev>>

authvars == <<user, stored, pending, stale, ret>>

dvars == <<loading, currentMeeting, analysis, inflight, submits, outcome, before>>

vars == <<avars, authvars, dvars>>

\* ------------------------------------------------------------ bounds
\* number of pieces a rich transcript is made of
MaxPieces == 2
\* number of sentences of a long transcript
MaxSentences == 7
\* resolution of the random source: Math.random() returns n / RandDen, n in 0..RandDen-1
RandDen == 14
\* analyzeMeeting calls per behaviour
MaxCalls == 2
\* login and signup calls in flight at once
MaxPending == 2
\* handleTranscriptSubmit calls per behaviour
MaxSubmits == 2

\* ------------------------------------------------------------ JavaScript strings
\* The element of a one-element set.  Only({ e(x) : x \in {v} }) is e(v) with
\* v evaluated once, as a const declaration evaluates its right-hand side once.
Only(S) == CHOOSE x \in S : TRUE

UpperAlpha == "ABCDEFGHIJKLMNOPQRSTUVWXYZ"
LowerAlpha == "abcdefghijklmnopqrstuvwxyz"

CharAt(s, i) == SubSeq(s, i, i)

LowerOf == [c \in {CharAt(UpperAlpha, i) : i \in 1..Len(UpperAlpha)} |->
              CharAt(LowerAlpha, CHOOSE i \in 1..Len(UpperAlpha) : CharAt(UpperAlpha, i) = c)]

\* String.prototype.toLowerCase, one character
LowerChar(c) == IF c \in DOMAIN LowerOf THEN LowerOf[c] ELSE c

\* String.prototype.toLowerCase: every character lower-cased, the two halves
\* of the string in turn
RECURSIVE ToLowerCase(_)
ToLowerCase(s) ==
    Only({ IF Len(x) = 0 THEN ""
           ELSE IF Len(x) = 1 THEN LowerChar(x)
           ELSE ToLowerCase(SubSeq(x, 1, Len(x) \div 2))
                \o ToLowerCase(SubSeq(x, Len(x) \div 2 + 1, Len(x)))
           : x \in {s} })

\* String.prototype.includes
Includes(s, k) ==
    \E x \in {s} : \E i \in 1..(Len(x) - Len(k) + 1) : SubSeq(x, i, i + Len(k) - 1) = k

\* Array.prototype.some(keyword => s.includes(keyword))
IncludesAny(s, keywords) ==
    \E x \in {s} : \E j \in 1..Len(keywords) : Includes(x, keywords[j])

\* the character classes of the two regular expressions
Delims == {".", "!", "?"}
Spaces == {" ", "\n", "\t"}
IsSpace(c) == c \in Spaces

\* where the segments of a split start: at 1 and after the last character of
\* each maximal run of class characters
SegmentStarts(s, class) ==
    {1} \cup { i + 1 : i \in { j \in 1..Len(s) :
                 /\ CharAt(s, j) \in class
                 /\ (j = Len(s) \/ CharAt(s, j + 1) \notin class) } }

\* where the segments of a split end: before the first character of each
\* maximal run of class characters and at the end of the string
SegmentEnds(s, class) ==
    {Len(s)} \cup { i - 1 : i \in { j \in 1..Len(s) :
                 /\ CharAt(s, j) \in class
                 /\ (j = 1 \/ CharAt(s, j - 1) \notin class) } }

\* the k-th smallest element of a set of numbers
Kth(S, k) == CHOOSE x \in S : Cardinality({y \in S : y < x}) = k - 1

\* String.prototype.split(separator), the separator a regular expression
\* [class]+: the segments between the maximal runs of class characters; a
\* leading or trailing run yields an empty first or last segment
SplitRuns(s, class) ==
    Only({ [k \in 1..Cardinality(A) |-> SubSeq(x, Kth(A, k), Kth(B, k))]
           : x \in {s}, A \in {SegmentStarts(s, class)}, B \in {SegmentEnds(s, class)} })

\* String.prototype.split(/[.!?]+/)
SplitSentences(s) == SplitRuns(s, Delims)

\* String.prototype.split(/\s+/)
SplitWords(s) == SplitRuns(s, Spaces)

\* String.prototype.trim
RECURSIVE Trim(_)
Trim(s) ==
    Only({ IF Len(x) = 0 THEN x
           ELSE IF IsSpace(CharAt(x, 1)) THEN Trim(SubSeq(x, 2, Len(x)))
           ELSE IF IsSpace(CharAt(x, Len(x))) THEN Trim(SubSeq(x, 1, Len(x) - 1))
           ELSE x
           : x \in {s} })

\* Array.prototype.join
RECURSIVE Join(_, _)
Join(strs, sep) ==
    Only({ IF Len(x) = 0 THEN ""
           ELSE IF Len(x) = 1 THEN x[1]
           ELSE x[1] \o sep \o Join(Tail(x), sep)
           : x \in {strs} })

\* slice(0, n) left out: the whole array
SliceNoLimit(seq, n) == seq

\* Array.prototype.slice(0, n)
Slice(seq, n) ==
    Only({ SubSeq(x, 1, IF Len(x) < n THEN Len(x) ELSE n) : x \in {seq} })

\* Array.prototype.includes on an array of strings
ArrayIncludes(arr, x) == \E i \in 1..Len(arr) : arr[i] = x

\* ------------------------------------------------------------ Date
MsPerDay == 24 * 60 * 60 * 1000

\* new Date(t.ms-since-epoch + ms): the clock value ms milliseconds after t, ms >= 0
AddMs(t, ms) ==
    [day |-> t.day + (t.ms + ms) \div MsPerDay, ms |-> (t.ms + ms) % MsPerDay]

\* the proleptic Gregorian calendar date of a day number (days since 1970-01-01),
\* as Date.prototype.toISOString computes it in UTC
CivilFromDays(z0) ==
    LET z   == z0 + 719468
        era == z \div 146097
        doe == z - era * 146097
        yoe == (doe - doe \div 1460 + doe \div 36524 - doe \div 146096) \div 365
        doy == doe - (365 * yoe + yoe \div 4 - yoe \div 100)
        mp  == (5 * doy + 2) \div 153
        d   == doy - (153 * mp + 2) \div 5 + 1
        m   == IF mp < 10 THEN mp + 3 ELSE mp - 9
        y   == yoe + era * 400 + (IF m <= 2 THEN 1 ELSE 0)
    IN [year |-> y, month |-> m, day |-> d]

Digit(d) == CharAt("0123456789", d + 1)
Pad2(n) == Digit(n \div 10) \o Digit(n % 10)
Pad4(n) == Pad2(n \div 100) \o Pad2(n % 100)

\* new Date(t).toISOString().split('T')[0]: "YYYY-MM-DD"
ISODate(t) ==
    Only({ Pad4(c.year) \o "-" \o Pad2(c.month) \o "-" \o Pad2(c.day)
           : c \in {CivilFromDays(t.day)} })

\* ------------------------------------------------------------ Math.random, uuid
\* the generator's next state (a full-period congruential step)
NextSeed(s) == (s + 3) % RandDen

RECURSIVE SeedAfter(_, _)
SeedAfter(s, n) == IF n = 0 THEN s ELSE SeedAfter(NextSeed(s), n - 1)

\* the "+ 1" left out
RandomDaysFromZero(s) == (s * 14) \div RandDen

\* Math.floor(Math.random() * 14) + 1 when Math.random() returns s / RandDen
RandomDays(s) == (s * 14) \div RandDen + 1

\* ------------------------------------------------------------ keyword tables
topicKeywords == <<
    [topic |-> "project management",
     keywords |-> <<"project", "timeline", "milestone", "deliverable", "deadline">>],
    [topic |-> "budget & finance",
     keywords |-> <<"budget", "cost", "expense", "revenue", "financial", "funding">>],
    [topic |-> "team coordination",
     keywords |-> <<"team", "assign", "responsible", "collaborate", "coordinate">>],
    [topic |-> "client relations",
     keywords |-> <<"client", "customer", "stakeholder", "presentation", "meeting">>],
    [topic |-> "technical discussion",
     keywords |-> <<"technical", "development", "implementation", "architecture", "solution">>] >>

keyPhrases == <<"discussed", "agreed", "decided", "concluded", "reviewed",
                "presented", "analyzed", "proposed", "suggested", "recommended">>

actionKeywords == <<"action", "todo", "follow up", "next step", "need to", "should",
                    "must", "required", "implement", "review", "analyze", "prepare", "contact">>

taskKeywords == <<"assign", "responsible", "owner", "lead", "manage", "handle",
                  "complete", "deliver", "finish", "due", "deadline">>

defaultAssignees == <<"Team Lead", "Project Manager", "Developer", "Analyst">>

defaultTasks == <<"Review and finalize project requirements",
                  "Prepare client presentation materials",
                  "Update project timeline and milestones",
                  "Conduct stakeholder feedback session">>

genericSummary == "Meeting focused on key business discussions and strategic planning. Participants reviewed current progress, discussed upcoming milestones, and aligned on next steps for continued success."

baselineSteps == <<"Distribute meeting summary to all participants",
                   "Set up follow-up meetings for high-priority items",
                   "Monitor task completion and provide updates">>

urgentActionStep == "Address high-priority action items immediately"
urgentTaskStep == "Ensure high-priority tasks have adequate resources"

\* ------------------------------------------------------------ AIProcessor
\* a trigger word looked for inside the words
TopicsAmongSubstring(words) ==
    Only({ [i \in 1..Len(hit) |-> hit[i].topic]
           : hit \in { SelectSeq(topicKeywords,
                         LAMBDA e : \E j \in 1..Len(e.keywords) : \E w \in 1..Len(words) :
                                       Includes(words[w], e.keywords[j])) } })

\* the topics with a trigger word among the words, in table order
TopicsAmong(words) ==
    Only({ [i \in 1..Len(hit) |-> hit[i].topic]
           : hit \in { SelectSeq(topicKeywords,
                         LAMBDA e : \E j \in 1..Len(e.keywords) :
                                       ArrayIncludes(words, e.keywords[j])) } })

\* the keyTopics of analyzeMeeting: words are the whitespace-separated tokens
\* of the lower-cased transcript
KeyTopics(t) ==
    Only({ TopicsAmong(words) : words \in {SplitWords(ToLowerCase(t))} })

\* the sentences analyzeMeeting hands to generateSummary
NonEmptySentences(t) ==
    SelectSeq(SplitSentences(t), LAMBDA s : Len(Trim(s)) > 0)

\* slice(0, 4) left out
ImportantSentencesNoLimit(sentences) ==
    Only({ [i \in 1..Len(kept) |-> Trim(kept[i])]
           : kept \in { SelectSeq(sentences,
                           LAMBDA s : IncludesAny(ToLowerCase(s), keyPhrases)) } })

\* the importantSentences of generateSummary
ImportantSentences(sentences) ==
    Only({ [i \in 1..Len(kept) |-> Trim(kept[i])]
           : kept \in { Slice(SelectSeq(sentences,
                                LAMBDA s : IncludesAny(ToLowerCase(s), keyPhrases)), 4) } })

GenerateSummary(t, sentences) ==
    Only({ IF Len(important) = 0 THEN genericSummary
           ELSE Join(important, ". ") \o "."
           : important \in {ImportantSentences(sentences)} })

\* 'urgent' and 'asap' looked for as whole words
ActionPriorityWholeWord(lowerSentence) ==
    IF ArrayIncludes(SplitWords(lowerSentence), "urgent")
       \/ ArrayIncludes(SplitWords(lowerSentence), "asap") THEN "High"
    ELSE IF Includes(lowerSentence, "important") THEN "Medium"
    ELSE "Low"

\* priority of an action item made from the lower-cased sentence
ActionPriority(lowerSentence) ==
    IF Includes(lowerSentence, "urgent") \/ Includes(lowerSentence, "asap") THEN "High"
    ELSE IF Includes(lowerSentence, "important") THEN "Medium"
    ELSE "Low"

\* the budget test made before the client test
ActionCategoryBudgetFirst(lowerSentence) ==
    IF Includes(lowerSentence, "budget") THEN "Budget & Finance"
    ELSE IF Includes(lowerSentence, "client") THEN "Client Relations"
    ELSE IF Includes(lowerSentence, "technical") THEN "Technical"
    ELSE "General"

\* category of an action item made from the lower-cased sentence
ActionCategory(lowerSentence) ==
    IF Includes(lowerSentence, "client") THEN "Client Relations"
    ELSE IF Includes(lowerSentence, "budget") THEN "Budget & Finance"
    ELSE IF Includes(lowerSentence, "technical") THEN "Technical"
    ELSE "General"

\* the sentences extractActionItems pushes an item for
ActionSentences(t) ==
    SelectSeq(SplitSentences(t), LAMBDA s : IncludesAny(ToLowerCase(s), actionKeywords))

\* the item extractActionItems pushes for a matching sentence
ActionItem(id, sentence) ==
    Only({ [id |-> id,
            description |-> Trim(sentence),
            priority |-> ActionPriority(lowerSentence),
            category |-> ActionCategory(lowerSentence)]
           : lowerSentence \in {ToLowerCase(sentence)} })

DefaultActionItems(u) == <<
    [id |-> u + 1, description |-> "Schedule follow-up meeting to review progress",
     priority |-> "Medium", category |-> "General"],
    [id |-> u + 2, description |-> "Share meeting summary with all stakeholders",
     priority |-> "Low", category |-> "Communication"] >>

\* how many items extractActionItems returns at most
ActionLimit == 6

\* the defaults left out
ActionItemsPushedNoDefaults(t, u) ==
    Only({ [i \in 1..Len(m) |-> ActionItem(u + i, m[i])] : m \in {ActionSentences(t)} })

\* the actionItems array of extractActionItems before the slice; u is the
\* state of the uuid source
ActionItemsPushed(t, u) ==
    Only({ IF Len(m) = 0 THEN DefaultActionItems(u)
           ELSE [i \in 1..Len(m) |-> ActionItem(u + i, m[i])]
           : m \in {ActionSentences(t)} })

\* the High items moved to the front before the slice
ExtractActionItemsRanked(t, u) ==
    Only({ [items |-> Slice(SelectSeq(pushed, LAMBDA x : x.priority = "High")
                            \o SelectSeq(pushed, LAMBDA x : x.priority # "High"),
                            ActionLimit),
            uuids |-> Len(pushed)]
           : pushed \in {ActionItemsPushed(t, u)} })

\* extractActionItems. items: the array returned; uuids: the number of
\* uuidv4() calls made
ExtractActionItems(t, u) ==
    Only({ [items |-> Slice(pushed, ActionLimit), uuids |-> Len(pushed)]
           : pushed \in {ActionItemsPushed(t, u)} })

\* the 'important' test made first
TaskPriorityImportantFirst(lowerSentence) ==
    IF Includes(lowerSentence, "important") THEN "Medium"
    ELSE IF Includes(lowerSentence, "urgent") \/ Includes(lowerSentence, "critical") THEN "High"
    ELSE "Low"

\* priority of a task made from the lower-cased sentence
TaskPriority(lowerSentence) ==
    IF Includes(lowerSentence, "urgent") \/ Includes(lowerSentence, "critical") THEN "High"
    ELSE IF Includes(lowerSentence, "important") THEN "Medium"
    ELSE "Low"

\* the positions (1-based) in transcript.split(/[.!?]+/) of the sentences
\* extractTasks pushes a task for
TaskPositions(t) ==
    Only({ SelectSeq([i \in 1..Len(sentences) |-> i],
                     LAMBDA i : IncludesAny(ToLowerCase(sentences[i]), taskKeywords))
           : sentences \in {SplitSentences(t)} })

\* the roster extractTasks assigns from
Assignees(ps) == IF Len(ps) > 0 THEN ps ELSE defaultAssignees

\* the index taken one-based
AssigneeAtOneBased(roster, index) == roster[((index + 1) % Len(roster)) + 1]

\* assignees[index % assignees.length], index zero-based
AssigneeAt(roster, index) == roster[(index % Len(roster)) + 1]

\* the dueDate of the j-th matched task: one Math.random() call per matched sentence
MatchedDueDate(t, s, j) == ISODate(AddMs(t, RandomDays(SeedAfter(s, j - 1)) * MsPerDay))

\* an offset of index + 2 days
DefaultDueDateOneDayEarly(t, index) == ISODate(AddMs(t, (index + 2) * MsPerDay))

\* the dueDate of the default task at zero-based index
DefaultDueDate(t, index) == ISODate(AddMs(t, (index + 3) * MsPerDay))

\* the task extractTasks pushes for a matching sentence
MatchedTask(id, sentence, assignee, dueDate) ==
    Only({ [id |-> id,
            description |-> Trim(sentence),
            assignee |-> assignee,
            dueDate |-> dueDate,
            priority |-> TaskPriority(lowerSentence),
            status |-> "Pending"]
           : lowerSentence \in {ToLowerCase(sentence)} })

\* the tasks extractTasks pushes when no sentence matched
DefaultTasks(roster, clk, u) ==
    [j \in 1..Len(defaultTasks) |->
        [id |-> u + j,
         description |-> defaultTasks[j],
         assignee |-> AssigneeAt(roster, j - 1),
         dueDate |-> DefaultDueDate(clk, j - 1),
         priority |-> IF j - 1 = 0 THEN "High" ELSE "Medium",
         status |-> "Pending"]]

\* how many tasks extractTasks returns at most
TaskLimit == 5

\* a round-robin position carried over from call to call (here: advancing
\* with the uuid source) instead of the sentence index alone
TasksPushedCarryOver(t, ps, clk, s, u) ==
    Only({ IF Len(pos) = 0 THEN DefaultTasks(roster, clk, u)
           ELSE [j \in 1..Len(pos) |->
                   MatchedTask(u + j, sentences[pos[j]],
                               AssigneeAt(roster, u + pos[j] - 1),
                               MatchedDueDate(clk, s, j))]
           : sentences \in {SplitSentences(t)}, pos \in {TaskPositions(t)},
             roster \in {Assignees(ps)} })

\* the roster indexed by the position among the matching sentences
TasksPushedByMatchIndex(t, ps, clk, s, u) ==
    Only({ IF Len(pos) = 0 THEN DefaultTasks(roster, clk, u)
           ELSE [j \in 1..Len(pos) |->
                   MatchedTask(u + j, sentences[pos[j]],
                               AssigneeAt(roster, j - 1),
                               MatchedDueDate(clk, s, j))]
           : sentences \in {SplitSentences(t)}, pos \in {TaskPositions(t)},
             roster \in {Assignees(ps)} })

\* the tasks array of extractTasks before the slice; clk, s, u: the clock,
\* the Math.random state and the uuid state
TasksPushed(t, ps, clk, s, u) ==
    Only({ IF Len(pos) = 0 THEN DefaultTasks(roster, clk, u)
           ELSE [j \in 1..Len(pos) |->
                   MatchedTask(u + j, sentences[pos[j]],
                               AssigneeAt(roster, pos[j] - 1),
                               MatchedDueDate(clk, s, j))]
           : sentences \in {SplitSentences(t)}, pos \in {TaskPositions(t)},
             roster \in {Assignees(ps)} })

\* extractTasks. tasks: the array returned; uuids, randoms: the numbers of
\* uuidv4() and of Math.random() calls made
ExtractTasks(t, ps, clk, s, u) ==
    Only({ [tasks |-> Slice(pushed, TaskLimit),
            uuids |-> Len(pushed),
            randoms |-> Len(pos)]
           : pushed \in {TasksPushed(t, ps, clk, s, u)}, pos \in {TaskPositions(t)} })

HasHigh(xs) == \E i \in 1..Len(xs) : xs[i].priority = "High"

\* both tests made on the action items
GenerateNextStepsActionsTwice(actionItems, tasks) ==
    (IF HasHigh(actionItems) THEN <<urgentActionStep>> ELSE <<>>)
    \o baselineSteps
    \o (IF HasHigh(actionItems) THEN <<urgentTaskStep>> ELSE <<>>)

\* both extra steps pushed after the baseline steps
GenerateNextStepsBothAppended(actionItems, tasks) ==
    baselineSteps
    \o (IF HasHigh(actionItems) THEN <<urgentActionStep>> ELSE <<>>)
    \o (IF HasHigh(tasks) THEN <<urgentTaskStep>> ELSE <<>>)

GenerateNextSteps(actionItems, tasks) ==
    (IF HasHigh(actionItems) THEN <<urgentActionStep>> ELSE <<>>)
    \o baselineSteps
    \o (IF HasHigh(tasks) THEN <<urgentTaskStep>> ELSE <<>>)

\* analyzeMeeting; clk, s, u: the clock, the Math.random state and the uuid state.
\* analysis: the MeetingAnalysis returned; uuids, randoms: the numbers of
\* uuidv4() and of Math.random() calls made
AnalyzeMeeting(t, ps, clk, s, u) ==
    Only(UNION {
        { [analysis |->
             [summary |-> GenerateSummary(t, NonEmptySentences(t)),
              actionItems |-> a.items,
              tasks |-> k.tasks,
              keyTopics |-> KeyTopics(t),
              nextSteps |-> GenerateNextSteps(a.items, k.tasks)],
           uuids |-> a.uuids + k.uuids,
           randoms |-> k.randoms]
          : k \in {ExtractTasks(t, ps, clk, s, u + a.uuids)} }
        : a \in {ExtractActionItems(t, u)} })

\* ------------------------------------------------------------ inputs
\* sentence material for short transcripts; a piece without a closing delimiter
\* runs into the piece after it
Pieces == <<
    "We need to review the budget urgently.",
    " Contact client: budget!",
    " Budget review, Client\n",
    " Implement technical ASAP?",
    " Lead URGENT important.",
    " Important: finish!",
    " Mike is owner",
    " Critical.",
    " We agreed budgets.",
    "...",
    " \n",
    " Hi team" >>

\* sentence material for long transcripts
LongPieces == << "Must lead.", " Ok?" >>

\* sentences that match an action trigger, a task trigger and a key phrase,
\* the first of priority Low, the second of priority High
RankPieces == << "We agreed: must lead.", " Lead must, URGENT Decided!" >>

RECURSIVE Concat(_, _)
Concat(pieces, idx) ==
    IF Len(idx) = 0 THEN "" ELSE pieces[Head(idx)] \o Concat(pieces, Tail(idx))

\* every concatenation of at most n of the pieces
Transcripts(pieces, n) ==
    { Concat(pieces, idx) : idx \in UNION { [1..k -> 1..Len(pieces)] : k \in 0..n } }

\* no participants given (the built-in roster is used), or three
Rosters == { <<>>, <<"Sarah", "Mike", "Lisa">> }

\* fewer and more participants than a long transcript has task sentences
LongRosters == { <<"Sarah", "Mike", "Lisa">>, <<"Ann", "Bob", "Cy", "Di", "Ed">> }

\* 2026-11-02 12:00:00.000, 2028-02-16 23:59:59.999, 2026-12-25 00:00:00.000 (UTC)
Clocks == { [day |-> 20759, ms |-> 12 * 60 * 60 * 1000],
            [day |-> 21230, ms |-> MsPerDay - 1],
            [day |-> 20812, ms |-> 0] }

Noon == [day |-> 20759, ms |-> 12 * 60 * 60 * 1000]

\* short transcripts under every roster, and single pieces under every
\* clock, seed and harness
Inputs ==
    [transcript : Transcripts(Pieces, MaxPieces), participants : Rosters,
     now : {Noon}, seed : {0}, mocked : {TRUE}]
    \cup
    [transcript : Transcripts(Pieces, 1), participants : {<<>>},
     now : Clocks, seed : 0..(RandDen - 1), mocked : BOOLEAN]

\* transcripts of many sentences
LongInputs ==
    [transcript : Transcripts(LongPieces, MaxSentences),
     participants : LongRosters,
     now : {Noon}, seed : {0}, mocked : {TRUE}]

\* transcripts of many matching sentences of both priorities
RankInputs ==
    [transcript : Transcripts(RankPieces, MaxSentences),
     participants : {<<"Sarah", "Mike", "Lisa">>},
     now : {Noon}, seed : {0}, mocked : {TRUE}]

\* ------------------------------------------------------------ the analyzer as a state machine
NoAnalysis == [summary |-> "", actionItems |-> <<>>, tasks |-> <<>>,
               keyTopics |-> <<>>, nextSteps |-> <<>>]

InitWith(inputs) ==
    /\ \E in \in inputs :
        /\ transcript = in.transcript
        /\ participants = in.participants
        /\ now = in.now
        /\ seed = in.seed
        /\ seed0 = in.seed
        /\ mocked = in.mocked
    /\ uuid = 0
    /\ calls = 0
    /\ at = Noon
    /\ result = NoAnalysis
    /\ prev = NoAnalysis

\* one call AIProcessor.analyzeMeeting(transcript, participants).  Under the
\* test harness the clock is frozen and Math.random replays from seed0;
\* otherwise the generator has advanced by the draws made and the wall clock
\* has moved on by the next call.  uuidv4() draws from its own source.
Analyze ==
    /\ calls < MaxCalls
    /\ \E r \in {AnalyzeMeeting(transcript, participants, now, seed, uuid)} :
          /\ result' = r.analysis
          /\ uuid' = uuid + r.uuids
          /\ seed' = IF mocked THEN seed0 ELSE SeedAfter(seed, r.randoms)
    /\ prev' = result
    /\ at' = now
    /\ calls' = calls + 1
    /\ now' = IF mocked THEN now ELSE AddMs(now, 12 * 60 * 60 * 1000)
    /\ UNCHANGED <<transcript, participants, seed0, mocked>>
    /\ UNCHANGED authvars
    /\ UNCHANGED dvars

\* ------------------------------------------------------------ AuthProvider
\* JavaScript's null
Null == [null |-> TRUE]

\* the index of the first c in s, or 0
IndexOf(s, c) ==
    IF Includes(s, c)
    THEN CHOOSE i \in 1..Len(s) :
            /\ SubSeq(s, i, i + Len(c) - 1) = c
            /\ \A j \in 1..(i - 1) : SubSeq(s, j, j + Len(c) - 1) # c
    ELSE 0

\* s.split(c)[0]: s up to its first c, all of s when it has none
SplitFirst(s, c) == IF Includes(s, c) THEN SubSeq(s, 1, IndexOf(s, c) - 1) ELSE s

\* Number.prototype.toString of a natural number
RECURSIVE NatToString(_)
NatToString(n) == IF n < 10 THEN Digit(n) ELSE NatToString(n \div 10) \o Digit(n % 10)

\* Date.now().toString(): the decimal digits of day * 86400000 + ms, written
\* as (day * 864 + ms div 100000) followed by five digits of ms mod 100000
NowToString(t) ==
    LET lo == t.ms % 100000
    IN NatToString(t.day * 864 + t.ms \div 100000)
       \o Pad2(lo \div 1000) \o Digit((lo \div 100) % 10) \o Pad2(lo % 100)

\* JSON.stringify of a User: a text of its members in insertion order
Stringify(u) ==
    [json |-> << <<"id", u.id>>, <<"email", u.email>>, <<"name", u.name>>,
                 <<"role", u.role>>, <<"company", u.company>> >>]

\* JSON.parse of a stored User
Parse(text) ==
    LET m == text.json
    IN [k \in {m[i][1] : i \in 1..Len(m)} |->
          m[CHOOSE i \in 1..Len(m) : m[i][1] = k][2]]

\* what the login and signup forms can send
Emails == {"ann@x.io", "bob", "@"}
Passwords == {"secret", "12345"}
Names == {"Ann", ""}
Companies == {"Acme", ""}

LoginCalls == [kind : {"login"}, email : Emails, password : Passwords]
SignupCalls == [kind : {"signup"}, name : Names, email : {"ann@x.io"},
                password : Passwords, company : Companies]

InitAuth ==
    /\ user = Null
    /\ stored = Null
    /\ pending = <<>>
    /\ stale = 0
    /\ ret = Null

\* ">" for ">="
LoginValidStrict(c) == Includes(c.email, "@") /\ Len(c.password) > 6

\* login validation: email.includes('@') && password.length >= 6
LoginValid(c) == Includes(c.email, "@") /\ Len(c.password) >= 6

LoginUser(c) ==
    [id |-> "1", email |-> c.email, name |-> SplitFirst(c.email, "@"),
     role |-> "Project Manager", company |-> "Enterprise Solutions Inc."]

\* signup validation: name && email.includes('@') && password.length >= 6 && company
SignupValid(c) ==
    /\ Len(c.name) > 0
    /\ Includes(c.email, "@")
    /\ Len(c.password) >= 6
    /\ Len(c.company) > 0

SignupUser(c, t) ==
    [id |-> NowToString(t), email |-> c.email, name |-> c.name,
     role |-> "Team Member", company |-> c.company]

\* login(email, password) and signup(name, email, password, company) up to
\* their await: the one-second timer is set
Start(c) ==
    /\ Len(pending) < MaxPending
    /\ pending' = Append(pending, c)
    /\ UNCHANGED <<user, stored, stale, ret>>
    /\ UNCHANGED avars
    /\ UNCHANGED dvars

LoginStart == \E c \in LoginCalls : Start(c)

SignupStart == \E c \in SignupCalls : Start(c)

\* the user kept in the component's state only
LoginResumeInMemory ==
    /\ pending # <<>>
    /\ Head(pending).kind = "login"
    /\ LET c == Head(pending)
       IN IF LoginValid(c)
          THEN /\ user' = LoginUser(c)
               /\ ret' = [call |-> c, value |-> TRUE]
               /\ UNCHANGED stored
          ELSE /\ ret' = [call |-> c, value |-> FALSE]
               /\ UNCHANGED <<user, stored>>
    /\ pending' = Tail(pending)
    /\ stale' = IF stale > 0 THEN stale - 1 ELSE 0
    /\ UNCHANGED avars
    /\ UNCHANGED dvars

\* the oldest timer fires (equal delays fire in the order they were set) and
\* the login call runs to its return
LoginResume ==
    /\ pending # <<>>
    /\ Head(pending).kind = "login"
    /\ LET c == Head(pending)
       IN IF LoginValid(c)
          THEN /\ user' = LoginUser(c)
               /\ stored' = Stringify(LoginUser(c))
               /\ ret' = [call |-> c, value |-> TRUE]
          ELSE /\ ret' = [call |-> c, value |-> FALSE]
               /\ UNCHANGED <<user, stored>>
    /\ pending' = Tail(pending)
    /\ stale' = IF stale > 0 THEN stale - 1 ELSE 0
    /\ UNCHANGED avars
    /\ UNCHANGED dvars

\* the oldest timer fires and the signup call runs to its return
SignupResume ==
    /\ pending # <<>>
    /\ Head(pending).kind = "signup"
    /\ LET c == Head(pending)
       IN IF SignupValid(c)
          THEN /\ user' = SignupUser(c, now)
               /\ stored' = Stringify(SignupUser(c, now))
               /\ ret' = [call |-> c, value |-> TRUE]
          ELSE /\ ret' = [call |-> c, value |-> FALSE]
               /\ UNCHANGED <<user, stored>>
    /\ pending' = Tail(pending)
    /\ stale' = IF stale > 0 THEN stale - 1 ELSE 0
    /\ UNCHANGED avars
    /\ UNCHANGED dvars

Logout ==
    /\ user' = Null
    /\ stored' = Null
    /\ stale' = Len(pending)
    /\ UNCHANGED <<pending, ret>>
    /\ UNCHANGED avars
    /\ UNCHANGED dvars

\* the page is loaded anew: a new AuthProvider takes its user from
\* localStorage; the calls and timers of the old page are gone
Mount ==
    /\ user' = IF stored # Null THEN Parse(stored) ELSE Null
    /\ pending' = <<>>
    /\ stale' = 0
    /\ ret' = Null
    /\ UNCHANGED stored
    /\ UNCHANGED avars
    /\ UNCHANGED dvars

\* ------------------------------------------------------------ DashboardPage
\* String.prototype.split(c), c one character: the segments between the c's
SplitOn(s, c) ==
    Only({ [k \in 1..(Cardinality(at_c) + 1) |->
              SubSeq(x, IF k = 1 THEN 1 ELSE Kth(at_c, k - 1) + 1,
                        IF k = Cardinality(at_c) + 1 THEN Len(x) ELSE Kth(at_c, k) - 1)]
           : x \in {s}, at_c \in { {i \in 1..Len(s) : CharAt(s, i) = c} } })

\* participants.split(',').map(p => p.trim()).filter(p => p)
ParticipantList(text) ==
    Only({ SelectSeq([i \in 1..Len(parts) |-> Trim(parts[i])], LAMBDA q : Len(q) > 0)
           : parts \in {SplitOn(text, ",")} })

\* the transcript InputSection makes up for an uploaded audio file
SimulatedTranscript(name) ==
    "Audio meeting transcript from " \o name \o ". Discussion covered project milestones, budget allocation, and team assignments. Action items include reviewing client requirements, preparing presentation materials, and scheduling follow-up meetings. Team leads will coordinate with respective departments to ensure timely completion of deliverables."

Pad3(n) == Digit(n \div 100) \o Pad2(n % 100)

\* Date.prototype.toISOString
ISOString(t) ==
    ISODate(t) \o "T" \o Pad2(t.ms \div 3600000) \o ":" \o Pad2((t.ms \div 60000) % 60)
    \o ":" \o Pad2((t.ms \div 1000) % 60) \o "." \o Pad3(t.ms % 1000) \o "Z"

\* Date.prototype.toLocaleDateString, for the locale en-US in the time zone UTC
LocaleDate(t) ==
    Only({ NatToString(c.month) \o "/" \o NatToString(c.day) \o "/" \o NatToString(c.year)
           : c \in {CivilFromDays(t.day)} })

\* the names handleTranscriptSubmit puts in for an empty participant list
fallbackParticipants == <<"Sarah Johnson", "Mike Chen", "Lisa Rodriguez">>

\* the participant list kept as given
MeetingParticipantsAsGiven(ps) == ps

\* the participants of the Meeting handleTranscriptSubmit builds
MeetingParticipants(ps) == IF Len(ps) > 0 THEN ps ELSE fallbackParticipants

\* the Meeting handleTranscriptSubmit builds; u is the state of the uuid source
MeetingOf(call, clk, u) ==
    [id |-> u + 1,
     title |-> "Meeting Analysis - " \o LocaleDate(clk),
     date |-> LocaleDate(clk),
     duration |-> "45 mins",
     participants |-> MeetingParticipants(call.participants),
     transcript |-> call.transcript,
     createdAt |-> ISOString(clk)]

\* what the form can hold when it is submitted
FormTranscripts == {"", " \n", "Mike must lead.", "Thanks"}
FormParticipants == {"", " , ", "Ann, Bob", ",Team Lead"}
FormTabs == {"text", "audio", "paste"}
FormFiles == {Null, [name |-> "a.mp3"]}

Forms == [activeTab : FormTabs, transcript : FormTranscripts,
          participants : FormParticipants, audioFile : FormFiles]

InitDash ==
    /\ loading = FALSE
    /\ currentMeeting = Null
    /\ analysis = Null
    /\ inflight = Null
    /\ submits = 0
    /\ outcome = "none"
    /\ before = [meeting |-> Null, analysis |-> Null]

\* the submit button is disabled: loading || (!transcript.trim() && !audioFile)
SubmitDisabled(form) ==
    loading \/ (Len(Trim(form.transcript)) = 0 /\ form.audioFile = Null)

\* handleTranscriptSubmit(t, ps) up to its await: loading is set and the
\* two-second timer is started
CallSubmit(t, ps) ==
    /\ loading' = TRUE
    /\ inflight' = [transcript |-> t, participants |-> ps]
    /\ submits' = submits + 1
    /\ outcome' = "none"
    /\ before' = [meeting |-> currentMeeting, analysis |-> analysis]
    /\ UNCHANGED <<currentMeeting, analysis>>

\* InputSection.handleSubmit on a form whose button is enabled, in the cases
\* where it calls onTranscriptSubmit (it does nothing on a blank transcript
\* outside the audio tab)
HandleSubmit ==
    /\ submits < MaxSubmits
    /\ \E form \in Forms :
        /\ ~SubmitDisabled(form)
        /\ IF form.activeTab = "audio" /\ form.audioFile # Null
           THEN CallSubmit(SimulatedTranscript(form.audioFile.name),
                           ParticipantList(form.participants))
           ELSE /\ Len(Trim(form.transcript)) > 0
                /\ CallSubmit(form.transcript, ParticipantList(form.participants))
    /\ UNCHANGED avars
    /\ UNCHANGED authvars

\* the timer fires and handleTranscriptSubmit runs to its end without a throw
Process ==
    /\ inflight # Null
    /\ \E m \in {MeetingOf(inflight, now, uuid)} :
       \E r \in {AnalyzeMeeting(inflight.transcript, m.participants, now, seed, uuid + 1)} :
          /\ currentMeeting' = m
          /\ analysis' = r.analysis
          /\ transcript' = inflight.transcript
          /\ participants' = m.participants
          /\ result' = r.analysis
          /\ uuid' = uuid + 1 + r.uuids
          /\ seed' = IF mocked THEN seed0 ELSE SeedAfter(seed, r.randoms)
    /\ prev' = result
    /\ at' = now
    /\ calls' = calls + 1
    /\ now' = IF mocked THEN now ELSE AddMs(now, 12 * 60 * 60 * 1000)
    /\ loading' = FALSE
    /\ inflight' = Null
    /\ outcome' = "done"
    /\ UNCHANGED <<submits, before, seed0, mocked>>
    /\ UNCHANGED authvars

\* the error caught and logged, loading left as it is
ProcessThrowsNoFinally ==
    /\ inflight # Null
    /\ inflight' = Null
    /\ outcome' = "threw"
    /\ UNCHANGED <<loading, currentMeeting, analysis, submits, before>>
    /\ UNCHANGED avars
    /\ UNCHANGED authvars

\* the timer fires and a call in the try block throws before the setters
\* (uuidv4() without a source of random values): catch logs, finally clears loading
ProcessThrows ==
    /\ inflight # Null
    /\ loading' = FALSE
    /\ inflight' = Null
    /\ outcome' = "threw"
    /\ UNCHANGED <<currentMeeting, analysis, submits, before>>
    /\ UNCHANGED avars
    /\ UNCHANGED authvars

\* ------------------------------------------------------------ specifications
Init == InitWith(Inputs) /\ InitAuth /\ InitDash

InitLong == InitWith(LongInputs) /\ InitAuth /\ InitDash

Next == Analyze

Spec == Init /\ [][Next]_vars

SpecLong == InitLong /\ [][Next]_vars

InitRank == InitWith(RankInputs) /\ InitAuth /\ InitDash

SpecRank == InitRank /\ [][Next]_vars

AuthInputs ==
    [transcript : {""}, participants : {<<>>}, now : {Noon}, seed : {0}, mocked : {TRUE}]

InitAuthOnly == InitWith(AuthInputs) /\ InitAuth /\ InitDash

NextAuth ==
    \/ LoginStart
    \/ SignupStart
    \/ LoginResume
    \/ SignupResume
    \/ Logout
    \/ Mount

SpecAuth == InitAuthOnly /\ [][NextAuth]_vars

\* the dashboard before the first submission
DashInputs ==
    [transcript : {""}, participants : {<<>>}, now : {Noon}, seed : {0}, mocked : {FALSE}]

InitDashOnly == InitWith(DashInputs) /\ InitAuth /\ InitDash

\* the timer of a pending handleTranscriptSubmit call fires
Settle == ProcessThrows \/ Process

NextDash ==
    \/ HandleSubmit
    \/ Process
    \/ ProcessThrows

\* a timer that was started fires: the event loop runs its callback
SpecDash == InitDashOnly /\ [][NextDash]_vars /\ WF_vars(Settle)

\* ------------------------------------------------------------ properties
Returned == calls > 0

SML == <<"Sarah", "Mike", "Lisa">>

\* C1: every analysis returned has at most 6 action items and at most 5 tasks.
C1_Limits ==
    Returned => Len(result.actionItems) <= 6 /\ Len(result.tasks) <= 5

\* more than 6 sentences match an action trigger and more than 5 a task trigger
C1_Witness ==
    /\ Returned
    /\ Len(ActionSentences(transcript)) > 6
    /\ Len(TaskPositions(transcript)) > 5
    /\ Len(result.actionItems) = 6
    /\ Len(result.tasks) = 5

\* the lower-cased transcript contains no word of any keyword table
NoTrigger(t) ==
    LET l == ToLowerCase(t)
    IN /\ ~IncludesAny(l, keyPhrases)
       /\ ~IncludesAny(l, actionKeywords)
       /\ ~IncludesAny(l, taskKeywords)
       /\ \A i \in 1..Len(topicKeywords) : ~IncludesAny(l, topicKeywords[i].keywords)

\* the fallback content other than nextSteps
FallbackBody(r) ==
    /\ r.summary = genericSummary
    /\ r.keyTopics = <<>>
    /\ [i \in 1..Len(r.actionItems) |->
          <<r.actionItems[i].description, r.actionItems[i].priority, r.actionItems[i].category>>]
       = << <<"Schedule follow-up meeting to review progress", "Medium", "General">>,
            <<"Share meeting summary with all stakeholders", "Low", "Communication">> >>
    /\ [i \in 1..Len(r.tasks) |->
          <<r.tasks[i].description, r.tasks[i].priority, r.tasks[i].status>>]
       = << <<"Review and finalize project requirements", "High", "Pending">>,
            <<"Prepare client presentation materials", "Medium", "Pending">>,
            <<"Update project timeline and milestones", "Medium", "Pending">>,
            <<"Conduct stakeholder feedback session", "Medium", "Pending">> >>

\* C2 as stated: with no trigger word in the transcript the analysis is the
\* fallback set and nextSteps is exactly the 3 baseline steps.
C2_Original ==
    (Returned /\ NoTrigger(transcript)) =>
        /\ FallbackBody(result)
        /\ result.nextSteps = baselineSteps

\* C2 as amended: with no trigger word in the transcript the analysis is the
\* fallback set, and nextSteps is the 3 baseline steps followed by the
\* high-priority-task step, the first default task having priority High.
C2_Fallback ==
    (Returned /\ NoTrigger(transcript)) =>
        /\ FallbackBody(result)
        /\ result.nextSteps =
             << "Distribute meeting summary to all participants",
                "Set up follow-up meetings for high-priority items",
                "Monitor task completion and provide updates",
                "Ensure high-priority tasks have adequate resources" >>

\* a transcript of words, none of them a trigger, has been analysed
C2_Witness ==
    /\ Returned
    /\ transcript = " \n Critical."
    /\ NoTrigger(transcript)
    /\ Len(result.nextSteps) = 4

\* C3: every analysis analyzeMeeting returns has a non-empty summary, at
\* least one action item, at least one task and the three baseline steps; so
\* has the analysis of the inputs at hand in the states after the last call
\* the model makes (in the states before, the next call shows it).
Populated(r) ==
    /\ Len(r.summary) > 0
    /\ Len(r.actionItems) >= 1
    /\ Len(r.tasks) >= 1
    /\ Len(r.nextSteps) >= 3
    /\ \A i \in 1..Len(baselineSteps) : ArrayIncludes(r.nextSteps, baselineSteps[i])

C3_Total ==
    /\ Returned => Populated(result)
    /\ calls = MaxCalls =>
          Populated(AnalyzeMeeting(transcript, participants, now, seed, uuid).analysis)

\* a transcript made only of delimiters and whitespace has been analysed
C3_Witness ==
    /\ Returned
    /\ transcript = "... \n"
    /\ Len(result.tasks) = 4
    /\ Len(result.actionItems) = 2

\* the task-triggering sentences are at zero-based positions 0, 2 and 5
C4_Case ==
    /\ Returned
    /\ participants = SML
    /\ TaskPositions(transcript) = <<1, 3, 6>>

TaskAssignees(r) == [i \in 1..Len(r.tasks) |-> r.tasks[i].assignee]

\* C4 as stated: with participants Sarah, Mike, Lisa and task sentences at
\* positions 0, 2 and 5 the assignees are Sarah, Lisa, Sarah.
C4_Original == C4_Case => TaskAssignees(result) = <<"Sarah", "Lisa", "Sarah">>

\* C4 as amended: with participants Sarah, Mike, Lisa and task sentences at
\* positions 0, 2 and 5 the assignees are Sarah, Lisa, Lisa (5 mod 3 = 2).
C4_Assignees == C4_Case => TaskAssignees(result) = <<"Sarah", "Lisa", "Lisa">>

C4_Witness == C4_Case /\ Len(result.tasks) = 3

\* two calls have been made on the same transcript and participants, under
\* the same frozen clock and the same replayed Math.random sequence
TwoCallsSameSources == calls = 2 /\ mocked

\* the tasks made from keyword-matching sentences (not the defaults)
Matched == Len(TaskPositions(transcript)) > 0

WithoutId(x) == [k \in DOMAIN x \ {"id"} |-> x[k]]
WithoutIdAndDueDate(x) == [k \in DOMAIN x \ {"id", "dueDate"} |-> x[k]]
WithoutDueDate(x) == [k \in DOMAIN x \ {"dueDate"} |-> x[k]]

\* C5 as stated: the two outputs agree in every field of every element,
\* ids included, except the dueDate of keyword-matched tasks.
C5_Original ==
    TwoCallsSameSources =>
        /\ prev.summary = result.summary
        /\ prev.keyTopics = result.keyTopics
        /\ prev.nextSteps = result.nextSteps
        /\ prev.actionItems = result.actionItems
        /\ Len(prev.tasks) = Len(result.tasks)
        /\ \A matched \in {Matched} : \A i \in 1..Len(result.tasks) :
              IF matched THEN WithoutDueDate(prev.tasks[i]) = WithoutDueDate(result.tasks[i])
              ELSE prev.tasks[i] = result.tasks[i]

\* C5 as amended: the two outputs agree in every field of every element
\* except the id fields (uuidv4 draws a fresh id on every call) and the
\* dueDate of keyword-matched tasks.
C5_Repeatable ==
    TwoCallsSameSources =>
        /\ prev.summary = result.summary
        /\ prev.keyTopics = result.keyTopics
        /\ prev.nextSteps = result.nextSteps
        /\ Len(prev.actionItems) = Len(result.actionItems)
        /\ \A i \in 1..Len(result.actionItems) :
              WithoutId(prev.actionItems[i]) = WithoutId(result.actionItems[i])
        /\ Len(prev.tasks) = Len(result.tasks)
        /\ \A matched \in {Matched} : \A i \in 1..Len(result.tasks) :
              IF matched
              THEN WithoutIdAndDueDate(prev.tasks[i]) = WithoutIdAndDueDate(result.tasks[i])
              ELSE WithoutId(prev.tasks[i]) = WithoutId(result.tasks[i])

\* a second call on a transcript with matched tasks has returned other ids
C5_Witness ==
    /\ TwoCallsSameSources
    /\ Matched
    /\ prev.tasks[1].id # result.tasks[1].id
    /\ prev.tasks[1].description = result.tasks[1].description

\* the calendar date k days after the clock value the last call read
DateAfterDays(k) == ISODate([day |-> at.day + k, ms |-> at.ms])

\* C6: every task made from a keyword-matching sentence is due on the date
\* of (clock + k days) for a whole k in 1..14, never k = 0 nor k = 15.
C6_DueDate ==
    (Returned /\ Matched) =>
        \A i \in 1..Len(result.tasks) :
            /\ \E k \in 1..14 : result.tasks[i].dueDate = DateAfterDays(k)
            /\ result.tasks[i].dueDate # DateAfterDays(0)
            /\ result.tasks[i].dueDate # DateAfterDays(15)

\* the largest value of the random source gives 14 days, across a month's end
C6_Witness ==
    /\ Returned
    /\ Matched
    /\ mocked
    /\ seed0 = RandDen - 1
    /\ at = [day |-> 21230, ms |-> MsPerDay - 1]
    /\ result.tasks[1].dueDate = "2028-03-01"

\* the lower-cased sentence the i-th returned task was made from
TaskSentence(i) == ToLowerCase(SplitSentences(transcript)[TaskPositions(transcript)[i]])

\* C7: a task made from a matching sentence has priority High if the
\* sentence contains 'urgent' or 'critical', else Medium if it contains
\* 'important', else Low.
C7_TaskPriority ==
    (Returned /\ Matched) =>
        \A i \in 1..Len(result.tasks) : \A sentence \in {TaskSentence(i)} :
            LET high == Includes(sentence, "urgent") \/ Includes(sentence, "critical")
                medium == Includes(sentence, "important")
            IN /\ high => result.tasks[i].priority = "High"
               /\ (~high /\ medium) => result.tasks[i].priority = "Medium"
               /\ (~high /\ ~medium) => result.tasks[i].priority = "Low"

\* a task sentence with both 'urgent' and 'important' has given a High task
C7_Witness ==
    /\ Returned
    /\ Matched
    /\ Includes(TaskSentence(1), "urgent")
    /\ Includes(TaskSentence(1), "important")
    /\ result.tasks[1].priority = "High"

ActionMatched == Len(ActionSentences(transcript)) > 0

\* the lower-cased sentence the i-th returned action item was made from
ActionSentence(i) == ToLowerCase(ActionSentences(transcript)[i])

\* C8: an action item made from a matching sentence has the category of the
\* first rule that applies: client, then budget, then technical, else General.
C8_ActionCategory ==
    (Returned /\ ActionMatched) =>
        \A i \in 1..Len(result.actionItems) : \A sentence \in {ActionSentence(i)} :
            LET client == Includes(sentence, "client")
                budget == Includes(sentence, "budget")
                technical == Includes(sentence, "technical")
                category == result.actionItems[i].category
            IN /\ client => category = "Client Relations"
               /\ (~client /\ budget) => category = "Budget & Finance"
               /\ (~client /\ ~budget /\ technical) => category = "Technical"
               /\ (~client /\ ~budget /\ ~technical) => category = "General"

\* a sentence with 'budget' before 'client' has been classified Client Relations
C8_Witness ==
    /\ Returned
    /\ transcript = " Budget review, Client\n"
    /\ IndexOf(ActionSentence(1), "budget") < IndexOf(ActionSentence(1), "client")
    /\ result.actionItems[1].category = "Client Relations"

C9_Case ==
    /\ Returned
    /\ transcript = "We need to review the budget urgently."
    /\ participants = <<>>

\* C9: 'We need to review the budget urgently.' with no participants gives
\* exactly one action item, High and 'Budget & Finance', and the topic
\* 'budget & finance'.
C9_Example ==
    C9_Case =>
        /\ Len(result.actionItems) = 1
        /\ result.actionItems[1].priority = "High"
        /\ result.actionItems[1].category = "Budget & Finance"
        /\ ArrayIncludes(result.keyTopics, "budget & finance")

C9_Witness == C9_Case /\ result.actionItems[1].description = "We need to review the budget urgently"

\* the step on which the oldest pending call, a login, returns
LoginReturns ==
    /\ pending # <<>>
    /\ Head(pending).kind = "login"
    /\ pending' = Tail(pending)
    /\ ret' # Null

\* C10: a login with an email containing '@' and a password of 6 or more
\* characters returns true and sets the user and the stored entry, whatever
\* the state it runs in; any other login returns false and leaves both as
\* they were.
C10_Login ==
    [][LoginReturns =>
        LET c == Head(pending)
        IN IF Includes(c.email, "@") /\ Len(c.password) >= 6
           THEN /\ ret' = [call |-> c, value |-> TRUE]
                /\ user' # Null
                /\ user'.email = c.email
                /\ stored' # Null
                /\ Parse(stored') = user'
           ELSE /\ ret' = [call |-> c, value |-> FALSE]
                /\ user' = user
                /\ stored' = stored]_vars

\* an email that is only '@' has logged in: the user's name is empty
C10_Witness ==
    /\ ret # Null
    /\ ret.call.kind = "login"
    /\ ret.call.email = "@"
    /\ ret.value = TRUE
    /\ user # Null
    /\ user.email = "@"
    /\ user.name = ""


\* ------------------------------------------------------------ C11
\* C11 as stated: a newly initialised AuthProvider starts with user = null,
\* whatever login, signup and logout calls came before.
C11_Original == [][Mount => user' = Null]_vars

\* C11 as amended: the user is persisted in localStorage, and a newly
\* initialised AuthProvider starts with the user the one before it last had:
\* the user of the last successful login or signup, null after a logout.
C11_Persisted == [][Mount => user' = user]_vars

\* a new AuthProvider has started with a user: nothing has returned since it
\* started, and only a call that returns sets a user
C11_Witness ==
    /\ ret = Null
    /\ user # Null
    /\ user.id = "1"
    /\ stored # Null

\* ------------------------------------------------------------ C20
\* a login or signup call that was started before the latest logout returns
StaleReturn ==
    /\ stale > 0
    /\ pending # <<>>
    /\ pending' = Tail(pending)
    /\ ret' # Null

\* C20: after logout the user stays null and the stored entry stays absent
\* until a call started after that logout succeeds; a login or signup
\* started before the logout leaves both as they are when it returns.
C20_LogoutHolds == [][StaleReturn => (user' = user /\ stored' = stored)]_vars


\* ------------------------------------------------------------ C13
\* the roster extractTasks is claimed to assign from
ClaimedRoster ==
    IF Len(participants) > 0 THEN participants
    ELSE <<"Team Lead", "Project Manager", "Developer", "Analyst">>

\* the zero-based positions, among all segments of the transcript split on
\* runs of '.', '!' and '?', of the sentences the returned tasks were made from
SegmentIndexes ==
    Only({ [j \in 1..Len(pos) |-> pos[j] - 1] : pos \in {TaskPositions(transcript)} })

\* C13: the assignee of a task made from a matching sentence is
\* roster[i mod |roster|], i the zero-based position of the sentence among all
\* segments of the transcript (empty and non-matching ones counted).
C13_Assignee ==
    (Returned /\ Matched) =>
        \A roster \in {ClaimedRoster} : \A index \in {SegmentIndexes} :
        \A j \in 1..Len(result.tasks) :
            result.tasks[j].assignee = roster[(index[j] % Len(roster)) + 1]

\* with no participants, a task sentence after an empty first segment has
\* gone to the second name of the built-in roster
C13_Witness ==
    /\ Returned
    /\ participants = <<>>
    /\ transcript = "... Lead URGENT important."
    /\ SplitSentences(transcript)[1] = ""
    /\ Len(result.tasks) = 1
    /\ result.tasks[1].assignee = "Project Manager"

\* ------------------------------------------------------------ C14
\* C14: with more than 6 sentences matching an action trigger the action
\* items are the first 6 of them in transcript order, each description the
\* trimmed sentence, and with more than 5 sentences matching a task trigger
\* the tasks are the first 5 of them; priority plays no part.
C14_FirstMatches ==
    Returned =>
        /\ \A m \in {ActionSentences(transcript)} :
              Len(m) > 6 =>
                 /\ Len(result.actionItems) = 6
                 /\ \A i \in 1..6 :
                       /\ result.actionItems[i].description = Trim(m[i])
                       /\ result.actionItems[i].priority = ActionPriority(ToLowerCase(m[i]))
        /\ \A sentences \in {SplitSentences(transcript)} :
           \A pos \in {TaskPositions(transcript)} :
              Len(pos) > 5 =>
                 /\ Len(result.tasks) = 5
                 /\ \A i \in 1..5 :
                       /\ result.tasks[i].description = Trim(sentences[pos[i]])
                       /\ result.tasks[i].priority = TaskPriority(ToLowerCase(sentences[pos[i]]))

\* seven sentences match both triggers, only the last is High, and it is in
\* neither list
C14_Witness ==
    /\ Returned
    /\ Len(ActionSentences(transcript)) = 7
    /\ Len(TaskPositions(transcript)) = 7
    /\ ActionPriority(ToLowerCase(ActionSentences(transcript)[7])) = "High"
    /\ Len(result.actionItems) = 6
    /\ Len(result.tasks) = 5
    /\ \A i \in 1..6 : result.actionItems[i].priority = "Low"
    /\ \A i \in 1..5 : result.tasks[i].priority = "Low"


\* ------------------------------------------------------------ C15
HighAmong(xs) == \E i \in 1..Len(xs) : xs[i].priority = "High"

\* C15: nextSteps is the urgent-action step if a returned action item is
\* High, then the 3 baseline steps in fixed order, then the urgent-task step
\* if a returned task is High; between 3 and 5 steps in all.
C15_NextSteps ==
    Returned =>
        \A ns \in {result.nextSteps} :
        \A first \in {IF HighAmong(result.actionItems) THEN 1 ELSE 0} :
        \A last \in {IF HighAmong(result.tasks) THEN 1 ELSE 0} :
            /\ Len(ns) = first + 3 + last
            /\ Len(ns) >= 3
            /\ Len(ns) <= 5
            /\ first = 1 => ns[1] = "Address high-priority action items immediately"
            /\ SubSeq(ns, first + 1, first + 3)
                 = << "Distribute meeting summary to all participants",
                      "Set up follow-up meetings for high-priority items",
                      "Monitor task completion and provide updates" >>
            /\ last = 1 => ns[Len(ns)] = "Ensure high-priority tasks have adequate resources"

\* the sixth matching sentence is the first High one: it is among the 6
\* action items and not among the 5 tasks, so only the urgent-action step is there
C15_Witness ==
    /\ Returned
    /\ Len(TaskPositions(transcript)) >= 6
    /\ TaskPriority(TaskSentence(6)) = "High"
    /\ \A i \in 1..5 : result.tasks[i].priority = "Low"
    /\ result.actionItems[6].priority = "High"
    /\ Len(result.nextSteps) = 4
    /\ result.nextSteps[1] = urgentActionStep
    /\ result.nextSteps[4] = baselineSteps[3]

\* ------------------------------------------------------------ C16
\* w is a whole whitespace-delimited token of l
IsToken(l, w) ==
    \E i \in 1..(Len(l) - Len(w) + 1) :
        /\ SubSeq(l, i, i + Len(w) - 1) = w
        /\ (i = 1 \/ IsSpace(CharAt(l, i - 1)))
        /\ (i + Len(w) - 1 = Len(l) \/ IsSpace(CharAt(l, i + Len(w))))

\* the labels of the topic table, in its order, with a trigger word that is
\* a token of l
TopicsWithToken(l) ==
    LET hit == SelectSeq(topicKeywords,
                 LAMBDA e : \E j \in 1..Len(e.keywords) : IsToken(l, e.keywords[j]))
    IN [i \in 1..Len(hit) |-> hit[i].topic]

\* C16: a topic is in keyTopics iff one of its trigger words is a whole
\* whitespace-delimited token of the lower-cased transcript, and keyTopics is
\* in the order of the topic table.
C16_KeyTopics ==
    Returned => \A l \in {ToLowerCase(transcript)} : result.keyTopics = TopicsWithToken(l)

\* 'technical' comes before 'team' in the transcript and after it in
\* keyTopics; 'asap?' and 'implement' name no topic
C16_Witness ==
    /\ Returned
    /\ transcript = " Implement technical ASAP? Hi team"
    /\ result.keyTopics = <<"team coordination", "technical discussion">>

\* ------------------------------------------------------------ C17
\* the non-empty sentences that contain a key phrase, in any letter case
KeySentences ==
    SelectSeq(SplitSentences(transcript),
              LAMBDA x : Len(Trim(x)) > 0 /\ IncludesAny(ToLowerCase(x), keyPhrases))

\* the first 4 of k, trimmed, joined with '. ' and closed with '.'
SummaryOf(k) ==
    IF Len(k) = 0 THEN genericSummary
    ELSE IF Len(k) = 1 THEN Trim(k[1]) \o "."
    ELSE IF Len(k) = 2 THEN Trim(k[1]) \o ". " \o Trim(k[2]) \o "."
    ELSE IF Len(k) = 3 THEN Trim(k[1]) \o ". " \o Trim(k[2]) \o ". " \o Trim(k[3]) \o "."
    ELSE Trim(k[1]) \o ". " \o Trim(k[2]) \o ". " \o Trim(k[3]) \o ". " \o Trim(k[4]) \o "."

\* C17: the summary is the first 4 non-empty sentences that contain a key
\* phrase (case-insensitive), each trimmed, joined with '. ' and followed by
\* one '.'; the generic sentence when there is none.
C17_Summary ==
    Returned => \A k \in {KeySentences} : result.summary = SummaryOf(k)

\* five sentences have a key phrase, the fifth in capitals, and the summary
\* is the first four
C17_Witness ==
    /\ Returned
    /\ Len(KeySentences) = 5
    /\ KeySentences[5] = " Lead must, URGENT Decided"
    /\ result.summary
         = "We agreed: must lead. We agreed: must lead. We agreed: must lead. We agreed: must lead."

\* ------------------------------------------------------------ C18
\* C18: with no sentence matching a task trigger the tasks are the 4 default
\* tasks in fixed order, the i-th (from 0) due i + 3 days after the clock,
\* High for i = 0 and Medium after, assigned to roster[i mod |roster|]; every
\* task of every analysis is Pending.
C18_DefaultTasks ==
    Returned =>
        /\ ~Matched =>
              /\ Len(result.tasks) = 4
              /\ \A roster \in {ClaimedRoster} : \A i \in 0..3 :
                    /\ result.tasks[i + 1].description
                         = << "Review and finalize project requirements",
                              "Prepare client presentation materials",
                              "Update project timeline and milestones",
                              "Conduct stakeholder feedback session" >>[i + 1]
                    /\ result.tasks[i + 1].dueDate = DateAfterDays(i + 3)
                    /\ result.tasks[i + 1].priority = (IF i = 0 THEN "High" ELSE "Medium")
                    /\ result.tasks[i + 1].assignee = roster[(i % Len(roster)) + 1]
        /\ \A j \in 1..Len(result.tasks) : result.tasks[j].status = "Pending"

\* three participants and no task sentence: the fourth default task is the
\* first participant's again, due 6 days after 2026-11-02
C18_Witness ==
    /\ Returned
    /\ ~Matched
    /\ participants = SML
    /\ result.tasks[4].assignee = "Sarah"
    /\ result.tasks[4].dueDate = "2026-11-08"
    /\ result.tasks[1].priority = "High"


\* ------------------------------------------------------------ C12
\* a handleTranscriptSubmit call ends
CallEnds == inflight # Null /\ inflight' = Null

\* C12: every handleTranscriptSubmit call ends, with loading = false; when it
\* throws, currentMeeting and analysis are both as they were when the call
\* started, and no further call is made for the submission.
C12_Submit ==
    /\ (inflight # Null) ~> (inflight = Null /\ ~loading)
    /\ [][CallEnds =>
            /\ loading' = FALSE
            /\ outcome' = "threw" =>
                  /\ currentMeeting' = before.meeting
                  /\ analysis' = before.analysis
                  /\ submits' = submits]_vars
    /\ [](currentMeeting = Null <=> analysis = Null)

\* the second call has thrown: the first call's meeting and analysis are kept
C12_Witness ==
    /\ outcome = "threw"
    /\ submits = 2
    /\ ~loading
    /\ inflight = Null
    /\ currentMeeting # Null
    /\ analysis # Null
    /\ currentMeeting = before.meeting

\* ------------------------------------------------------------ C19
\* C19: through the dashboard analyzeMeeting is called with a non-empty
\* participant list, and every task of the analysis on display is assigned
\* to one of the participants of the meeting on display.
C19_Assignees ==
    /\ Returned => Len(participants) > 0
    /\ currentMeeting # Null =>
          /\ Len(currentMeeting.participants) > 0
          /\ participants = currentMeeting.participants
          /\ \A i \in 1..Len(analysis.tasks) :
                \E j \in 1..Len(currentMeeting.participants) :
                    analysis.tasks[i].assignee = currentMeeting.participants[j]

\* blank participants were submitted with a task sentence: the meeting has
\* the three fixed names and the task is the first one's
C19_Witness ==
    /\ currentMeeting # Null
    /\ currentMeeting.transcript = "Mike must lead."
    /\ currentMeeting.participants = <<"Sarah Johnson", "Mike Chen", "Lisa Rodriguez">>
    /\ Len(analysis.tasks) = 1
    /\ analysis.tasks[1].assignee = "Sarah Johnson"

=============================================================================
